---- MODULE Spec2Model ----
(***************************************************************************)
(* Model of the project-local command runner in src/scripts: the command   *)
(* registry filled by class-definition side effects, the invocation        *)
(* boundary of the command base classes (argument parsing, scoped working  *)
(* directory, CommandError -> exit(1)) and the workflow/action document    *)
(* builders with their YAML serialisation.                                 *)
(***************************************************************************)
EXTENDS Integers, Sequences, FiniteSets, TLC

VARIABLES loaded,            \* sys.modules: the modules already imported
          COMMAND_REGISTER,  \* base._COMMAND_REGISTER: name -> instance
          TEST_REGISTRY,     \* python.tests._TEST_REGISTRY: list of instances
          instances,         \* class -> number of instances created so far
          defined,           \* name -> classes defined under it, in order
          classes,           \* the classes of the program
          all_names,         \* scripts.__all__
          cwd,               \* the process's current directory
          files,             \* path -> content of the artifact file
          dirs,              \* directories that exist under .github
          frame,             \* the invocation in progress or just finished
          stdout,            \* what the invocation printed to sys.stdout
          stderr,            \* what the invocation printed to sys.stderr
          ran,               \* the test suites the invocation ran, in order
          children,          \* the child processes the invocation launched
          written            \* the files the invocation opened for writing

vars == <<loaded, COMMAND_REGISTER, TEST_REGISTRY, instances, defined,
          classes, all_names, cwd, files, dirs, frame, stdout, stderr, ran,
          children, written>>

\* ------------------------------------------------------------------ bounds
MaxUser == 1        \* classes defined outside the package
MaxInstances == 2   \* instances of PythonBuildAction: one made at import,
                    \* one more by each create of the test pipeline

\* --------------------------------------------------------------- constants
None == "None"
START_DIR == "/home/user"
PROJECT_ROOT == "/project/src"
PROJECT_ROOT_PARENT == "/project"
OTHER_DIR == "/elsewhere"
BASE_WORKFLOW_DIR == "/project/.github/workflows"
BASE_ACTION_DIR == "/project/.github/actions"

EmptyFn == [x \in {} |-> None]

Last(s) == s[Len(s)]

\* ----------------------------------------------------------------- helpers
Range(s) == {s[i] : i \in DOMAIN s}

\* d[k] = v of a Python dict held as a function
DictSet(d, k, v) == [x \in DOMAIN d \cup {k} |-> IF x = k THEN v ELSE d[x]]

\* ----------------------------------------------------------- class tables
(* The classes of the package.  OwnAttrs(c) holds what the body of class c *)
(* itself sets; methods are named by the class whose body defines them.    *)

BuiltinBases(c) ==
    CASE c = "_BaseCommand" -> <<>>
      [] c = "Command" -> <<"_BaseCommand">>
      [] c = "CommandWithParser" -> <<"_BaseCommand">>
      [] c = "ExecCommand" -> <<"Command">>
      [] c = "Workflow" -> <<"Command">>
      [] c = "Action" -> <<"Command">>
      [] c = "ApprovalBot" -> <<"Workflow">>
      [] c = "PythonBuildAction" -> <<"Action">>
      [] c = "GitHubPythonTest" -> <<"Workflow">>
      [] c = "Ruff" -> <<"ExecCommand">>
      [] c = "Pytest" -> <<"CommandWithParser", "Command">>
      [] c = "NamedPytest" -> <<"Command">>
      [] c = "AllPythonTests" -> <<"Pytest">>
      [] c = "Coverage" -> <<"Command">>
      [] c = "MyPy" -> <<"CommandWithParser">>
      [] c = "ImportLinter" -> <<"Command">>

BuiltinAttrs(c) ==
    CASE c = "_BaseCommand" ->
            [name |-> "", description |-> "", cwd |-> None,
             handle |-> "_BaseCommand", call |-> "_BaseCommand"]
      [] c = "Command" -> [call |-> "Command"]
      [] c = "CommandWithParser" -> [call |-> "CommandWithParser"]
      [] c = "ExecCommand" ->
            [command_name |-> "", cwd |-> None, handle |-> "ExecCommand",
             get_args |-> "ExecCommand"]
      [] c = "Workflow" ->
            [workflow_name |-> "", workflow_id |-> "", description |-> "",
             handle |-> "Workflow", create |-> "Workflow", delete |-> "Workflow",
             get_jobs |-> "Workflow", get_triggers |-> "Workflow",
             get_permissions |-> "Workflow"]
      [] c = "Action" ->
            [action_name |-> "", action_id |-> "", description |-> "",
             using |-> "composite", handle |-> "Action", create |-> "Action",
             delete |-> "Action", get_steps |-> "Action"]
      [] c = "ApprovalBot" ->
            [name |-> "github_approval_bot", workflow_name |-> "Approval Bot",
             workflow_id |-> "approval-bot",
             description |-> "Automatically approve pull requests.",
             get_jobs |-> "ApprovalBot", get_triggers |-> "ApprovalBot",
             get_permissions |-> "ApprovalBot"]
      [] c = "PythonBuildAction" ->
            [name |-> "github_python_build", action_id |-> "build",
             action_name |-> "Build python application.",
             get_steps |-> "PythonBuildAction"]
      [] c = "GitHubPythonTest" ->
            [name |-> "github_python_test", workflow_name |-> "Python Tests",
             workflow_id |-> "python-test",
             description |-> "Creates python test workflow for github actions.",
             get_jobs |-> "GitHubPythonTest", create |-> "GitHubPythonTest"]
      [] c = "Ruff" ->
            [name |-> "ruff", command_name |-> "ruff-bin",
             description |-> "Runs ruff linter of given files.", get_args |-> "Ruff"]
      [] c = "Pytest" ->
            [name |-> "pytest", description |-> "Runs pytest",
             handle |-> "Pytest", init |-> "Pytest"]
      [] c = "NamedPytest" ->
            [bypass |-> TRUE, name |-> "test_suite",
             description |-> "Runs a specific test suite",
             handle |-> "NamedPytest"]
      [] c = "AllPythonTests" ->
            [bypass |-> TRUE, name |-> "all_tests",
             description |-> "Runs all tests", handle |-> "AllPythonTests"]
      [] c = "Coverage" ->
            [name |-> "coverage", bypass |-> TRUE, cwd |-> PROJECT_ROOT,
             description |-> "Runs coverage for all tests",
             handle |-> "Coverage"]
      [] c = "MyPy" ->
            [name |-> "mypy", description |-> "Runs mypy type checker",
             cwd |-> PROJECT_ROOT, handle |-> "MyPy"]
      [] c = "ImportLinter" ->
            [name |-> "import_linter",
             description |-> "Checks for forbidden imports.",
             cwd |-> PROJECT_ROOT_PARENT, handle |-> "ImportLinter"]

BuiltinClasses ==
    {"_BaseCommand", "Command", "CommandWithParser", "ExecCommand", "Workflow",
     "Action", "ApprovalBot", "PythonBuildAction", "GitHubPythonTest", "Ruff",
     "Pytest", "NamedPytest", "AllPythonTests", "Coverage", "MyPy",
     "ImportLinter"}

(* Classes a user of the package may define on top of it: each is a class  *)
(* statement with its bases and the attributes its body sets.  A handle or *)
(* hook marked "user" is one whose result the environment decides.         *)
UserTemplates ==
    <<[bases |-> <<"Command">>, attrs |-> [description |-> "abstract helper"]],
      [bases |-> <<"CommandWithParser">>,
       attrs |-> [name |-> "ruff", cwd |-> OTHER_DIR, handle |-> "user"]],
      [bases |-> <<"Workflow">>,
       attrs |-> [name |-> "plugin", workflow_name |-> "Plugin",
                  workflow_id |-> "plugin", get_jobs |-> "user",
                  get_triggers |-> "user"]],
      [bases |-> <<"Pytest">>,
       attrs |-> [name |-> "unit_tests"]]>>

UserIds == <<"User1", "User2", "User3", "User4">>

(* A table of classes maps each class to its bases and to the attributes   *)
(* its body sets (attrs) and, once the class statement has built the class *)
(* object, to the attributes found along its MRO (all).                    *)
Bases(c, uc) == uc[c].bases

OwnAttrs(c, uc) == uc[c].attrs

\* the method resolution order of class c (a base shared by two bases comes
\* after both of them)
RECURSIVE Linearize(_, _)
Linearize(c, uc) ==
    LET RECURSIVE Merge(_)
        Merge(bs) == IF bs = <<>> THEN <<>> ELSE Linearize(Head(bs), uc) \o Merge(Tail(bs))
        all == Merge(Bases(c, uc))
        keep == SelectSeq([i \in DOMAIN all |-> <<i, all[i]>>],
                          LAMBDA p : \A j \in DOMAIN all : all[j] = p[2] => j <= p[1])
    IN  <<c>> \o [i \in DOMAIN keep |-> keep[i][2]]

\* the attributes a class has, each from the first class of its MRO whose
\* body sets it
Resolved(c, uc) ==
    LET m == Linearize(c, uc)
        names == UNION {DOMAIN OwnAttrs(m[i], uc) : i \in DOMAIN m}
    IN  [a \in names |->
            OwnAttrs(m[CHOOSE k \in DOMAIN m :
                          /\ a \in DOMAIN OwnAttrs(m[k], uc)
                          /\ \A j \in 1..(k - 1) : a \notin DOMAIN OwnAttrs(m[j], uc)], uc)[a]]

\* the class object a class statement builds
ClassObject(c, uc) ==
    [bases |-> Bases(c, uc), attrs |-> OwnAttrs(c, uc), all |-> Resolved(c, uc)]

\* the classes of the package
PackageSource ==
    [c \in BuiltinClasses |-> [bases |-> BuiltinBases(c), attrs |-> BuiltinAttrs(c)]]

PackageClasses == [c \in BuiltinClasses |-> ClassObject(c, PackageSource)]

HasAttr(c, a, uc) == a \in DOMAIN uc[c].all

\* attribute lookup on class c or an instance of it
Attr(c, a, uc) == uc[c].all[a]

\* getattr(c, a, dflt)
AttrOr(c, a, uc, dflt) == IF a \in DOMAIN uc[c].all THEN uc[c].all[a] ELSE dflt

\* ------------------------------------------------- discovery and registry
(* The operators below pass the process state as one record st: loaded,    *)
(* reg, tests, inst, defined, cwd, files, dirs, stdout, stderr, ran,       *)
(* children, written.                                                      *)
\* an instance of class c: the n-th object created of that class
Instance(c, n) == [cls |-> c, serial |-> n]

NoInstance == Instance(None, 0)

\* Pytest.__init__: every Pytest instance without bypass joins _TEST_REGISTRY
Pytest_init(inst, st, uc) ==
    IF ~AttrOr(inst.cls, "bypass", uc, FALSE)
    THEN [st EXCEPT !.tests = Append(@, inst)]
    ELSE st

\* as_command as it would be if every instance it makes were also stored in
\* the registry under the name of its class
as_command_registering(cls, st, uc) ==
    LET n == st.inst[cls] + 1
        inst == Instance(cls, n)
        st1 == [st EXCEPT !.inst[cls] = n,
                          !.reg = DictSet(@, Attr(cls, "name", uc), inst)]
    IN  [inst |-> inst,
         st |-> IF AttrOr(cls, "init", uc, "object") = "Pytest"
                THEN Pytest_init(inst, st1, uc)
                ELSE st1]

\* cls.as_command(): cls(), which runs the __init__ the class inherits
as_command(cls, st, uc) ==
    LET n == st.inst[cls] + 1
        inst == Instance(cls, n)
        st1 == [st EXCEPT !.inst[cls] = n]
    IN  [inst |-> inst,
         st |-> IF AttrOr(cls, "init", uc, "object") = "Pytest"
                THEN Pytest_init(inst, st1, uc)
                ELSE st1]

\* __init_subclass__ as it would be without the early return on an empty name
init_subclass_unguarded(cls, st, uc) ==
    LET r == as_command(cls, st, uc)
    IN  [r.st EXCEPT !.reg = DictSet(@, Attr(cls, "name", uc), r.inst)]

\* __init_subclass__ as it would be if a name already taken kept its entry
\* (setdefault instead of item assignment)
init_subclass_keep_first(cls, st, uc) ==
    LET name == Attr(cls, "name", uc)
    IN  IF name = ""
        THEN st
        ELSE LET r == as_command(cls, st, uc)
             IN  IF name \in DOMAIN st.reg THEN r.st
                 ELSE [r.st EXCEPT !.reg = DictSet(@, name, r.inst)]

\* _BaseCommand.__init_subclass__
init_subclass(cls, st, uc) ==
    LET name == Attr(cls, "name", uc)
    IN  IF name = ""
        THEN st
        ELSE LET r == as_command(cls, st, uc)
             IN  [r.st EXCEPT !.reg = DictSet(@, name, r.inst)]

\* the class statement of c: the class exists, then the hook of its bases runs
ClassStatement(c, st, uc) ==
    LET name == Attr(c, "name", uc)
        st1 == [st EXCEPT !.defined =
                    DictSet(@, name, IF name \in DOMAIN @ THEN Append(@[name], c) ELSE <<c>>)]
    IN  IF Bases(c, uc) # <<>> THEN init_subclass(c, st1, uc) ELSE st1

RECURSIVE ClassStatements(_, _, _)
ClassStatements(cs, st, uc) ==
    IF cs = <<>> THEN st
    ELSE ClassStatements(Tail(cs), ClassStatement(Head(cs), st, uc), uc)

\* the import statements and the class statements of each module, in order
ModuleBody(m) ==
    CASE m = "scripts.base" ->
            [imports |-> <<>>,
             classes |-> <<"_BaseCommand", "Command", "CommandWithParser", "ExecCommand">>]
      [] m = "scripts.ci._base" ->
            [imports |-> <<"scripts.base">>, classes |-> <<"Workflow", "Action">>]
      [] m = "scripts.ci.approval_bot" ->
            [imports |-> <<"scripts.ci._base">>, classes |-> <<"ApprovalBot">>]
      [] m = "scripts.ci.python_tests" ->
            [imports |-> <<"scripts.python.tests", "scripts.ci._base">>,
             classes |-> <<"PythonBuildAction", "GitHubPythonTest">>]
      [] m = "scripts.python.linters" ->
            [imports |-> <<"scripts.base">>, classes |-> <<"Ruff">>]
      [] m = "scripts.python.tests" ->
            [imports |-> <<"scripts.base">>,
             classes |-> <<"Pytest", "NamedPytest", "AllPythonTests", "Coverage",
                           "MyPy", "ImportLinter">>]

\* importlib.import_module: a module already in sys.modules is not run again
RECURSIVE import_module(_, _, _)
import_module(m, st, uc) ==
    IF m \in st.loaded THEN st
    ELSE LET RECURSIVE Imports(_, _)
             Imports(ms, s) ==
                 IF ms = <<>> THEN s
                 ELSE Imports(Tail(ms), import_module(Head(ms), s, uc))
             body == ModuleBody(m)
             st1 == Imports(body.imports, [st EXCEPT !.loaded = @ \cup {m}])
         IN  ClassStatements(body.classes, st1, uc)

\* the source tree of the package: the entries of each directory
DirEntries(path) ==
    CASE path = "scripts" ->
            {[path |-> "scripts/__init__.py", kind |-> "file", first |-> "_",
              suffix |-> ".py", module |-> "scripts.__init__"],
             [path |-> "scripts/base.py", kind |-> "file", first |-> "b",
              suffix |-> ".py", module |-> "scripts.base"],
             [path |-> "scripts/ci", kind |-> "dir", first |-> "c",
              suffix |-> "", module |-> ""],
             [path |-> "scripts/python", kind |-> "dir", first |-> "p",
              suffix |-> "", module |-> ""]}
      [] path = "scripts/ci" ->
            {[path |-> "scripts/ci/_base.py", kind |-> "file", first |-> "_",
              suffix |-> ".py", module |-> "scripts.ci._base"],
             [path |-> "scripts/ci/approval_bot.py", kind |-> "file", first |-> "a",
              suffix |-> ".py", module |-> "scripts.ci.approval_bot"],
             [path |-> "scripts/ci/python_tests.py", kind |-> "file", first |-> "p",
              suffix |-> ".py", module |-> "scripts.ci.python_tests"]}
      [] path = "scripts/python" ->
            {[path |-> "scripts/python/linters.py", kind |-> "file", first |-> "l",
              suffix |-> ".py", module |-> "scripts.python.linters"],
             [path |-> "scripts/python/tests.py", kind |-> "file", first |-> "t",
              suffix |-> ".py", module |-> "scripts.python.tests"]}

PackageDirs == {"scripts", "scripts/ci", "scripts/python"}

\* _walk_files: the eligible files below path, directories walked in place
RECURSIVE walk_files(_, _, _)
walk_files(path, exclude_current, order) ==
    LET RECURSIVE Walk(_)
        Walk(es) ==
            IF es = <<>> THEN <<>>
            ELSE LET entry == Head(es)
                 IN  (IF entry.kind = "dir"
                      THEN walk_files(entry.path, FALSE, order)
                      ELSE IF /\ ~exclude_current
                              /\ entry.kind = "file"
                              /\ entry.first # "_"
                              /\ entry.suffix = ".py"
                           THEN <<entry>>
                           ELSE <<>>) \o Walk(Tail(es))
    IN  Walk(order[path])

\* _import_all_modules
import_all_modules(st, uc, order) ==
    LET RECURSIVE Loop(_, _)
        Loop(fs, s) ==
            IF fs = <<>> THEN s
            ELSE Loop(Tail(fs), import_module(Head(fs).module, s, uc))
    IN  Loop(walk_files("scripts", TRUE, order), st)

\* scripts.__getattr__(name): the registry entry, KeyError when there is none
ModuleGetattr(reg, name) ==
    IF name \in DOMAIN reg
    THEN [raised |-> None, value |-> reg[name]]
    ELSE [raised |-> "KeyError", value |-> NoInstance]

\* scripts.__dir__()
ModuleDir(reg) == DOMAIN reg

\* --------------------------------------------------------------- documents
(* Python values a document is made of.  A str is held as the list of its  *)
(* lines, so "\n".join(xs) is Join(xs) and a str contains a line break iff *)
(* it has more than one line.  A dict and an OrderedDict both keep their   *)
(* items in insertion order.                                               *)
Str(s) == [t |-> "str", lines |-> <<s>>]

Join(ls) == [t |-> "str", lines |-> ls]

Dict(kv) == [t |-> "dict", kv |-> kv]

OrderedDict(kv) == [t |-> "odict", kv |-> kv]

List(items) == [t |-> "list", items |-> items]

Keys(m) == [i \in DOMAIN m.kv |-> m.kv[i][1]]

HasKey(m, k) == \E i \in DOMAIN m.kv : m.kv[i][1] = k

\* m[k] = v: a new key goes last, an existing key keeps its place
SetItem(m, k, v) ==
    IF HasKey(m, k)
    THEN [m EXCEPT !.kv = [i \in DOMAIN @ |-> IF @[i][1] = k THEN <<k, v>> ELSE @[i]]]
    ELSE [m EXCEPT !.kv = Append(@, <<k, v>>)]

\* bool(m) of a mapping
Truthy(m) == m.kv # <<>>

\* Workflow.get_triggers
Workflow_get_triggers ==
    Dict(<<<<"push", Dict(<<<<"branches", List(<<Str("main")>>)>>>>)>>,
           <<"pull_request", Dict(<<<<"branches", List(<<Str("main")>>)>>>>)>>>>)

\* Workflow.get_permissions
Workflow_get_permissions == Dict(<<>>)

\* ApprovalBot.get_triggers
ApprovalBot_get_triggers ==
    Dict(<<<<"pull_request", Dict(<<<<"branches", List(<<Str("main")>>)>>>>)>>>>)

\* ApprovalBot.get_permissions
ApprovalBot_get_permissions ==
    Dict(<<<<"contents", Str("write")>>, <<"pull-requests", Str("write")>>>>)

PrEnv ==
    Dict(<<<<"PR_URL", Str("${{github.event.pull_request.html_url}}")>>,
           <<"GITHUB_TOKEN", Str("${{secrets.GITHUB_TOKEN}}")>>>>)

\* the test made of --clear-automerge alone
clear_automerge_selected_by_flag(kw) == kw.clear_automerge

\* 'if clear_automerge or dependabot': the clear-automerge job is wanted
clear_automerge_selected(kw) == kw.clear_automerge \/ kw.dependabot

\* ApprovalBot.get_jobs
ApprovalBot_get_jobs(kw) ==
    LET j0 == OrderedDict(<<>>)
        j1 == IF clear_automerge_selected(kw)
              THEN SetItem(j0, "clear-automerge", Dict(<<
                     <<"name", Str("Clear automerge")>>,
                     <<"runs-on", Str("ubuntu-latest")>>,
                     <<"steps", List(<<Dict(<<
                         <<"name", Str("Disable auto - merge")>>,
                         <<"run", Str("gh pr merge - -disable - auto - -merge \"$PR_URL\" || true")>>,
                         <<"env", PrEnv>>>>)>>)>>>>))
              ELSE j0
        j2 == IF kw.owner
              THEN SetItem(j1, "auto-approve-owner", Dict(<<
                     <<"name", Str("Auto approve owner")>>,
                     <<"runs-on", Str("ubuntu-latest")>>,
                     <<"if", Str("${{github.event.pull_request.user.login == github.repository_owner}}")>>,
                     <<"steps", List(<<Dict(<<
                         <<"name", Str("Auto approve owner")>>,
                         <<"run", Str("gh pr review \"$PR_URL\" --approve")>>,
                         <<"env", PrEnv>>>>)>>)>>>>))
              ELSE j1
        j3 == IF kw.dependabot
              THEN SetItem(j2, "auto-approve-dependabot", Dict(<<
                     <<"name", Str("Auto approve dependabot")>>,
                     <<"runs-on", Str("ubuntu-latest")>>,
                     <<"needs", List(<<Str("clear-automerge")>>)>>,
                     <<"if", Str("${{github.event.pull_request.user.login == 'dependabot[bot]'}}")>>,
                     <<"steps", List(<<
                         Dict(<<<<"name", Str("Dependabot metadata")>>,
                                <<"id", Str("dependabot-metadata")>>,
                                <<"uses", Str("dependabot/fetch-metadata@v2.1.0")>>>>),
                         Dict(<<<<"name", Str("Approve patch and minor updates")>>,
                                <<"if", Str("${{steps.dependabot-metadata.outputs.update-type == 'version-update:semver-patch' || steps.dependabot-metadata.outputs.update-type == 'version-update:semver-minor'}}")>>,
                                <<"run", Str("gh pr review \"$PR_URL\" --approve -b \"I'm **approving** this pull request because **it includes a patch or minor update**\"")>>,
                                <<"env", PrEnv>>>>),
                         Dict(<<<<"name", Str("Approve major updates of development dependencies")>>,
                                <<"if", Str("${{steps.dependabot-metadata.outputs.update-type == 'version-update:semver-major' && steps.dependabot-metadata.outputs.dependency-type == 'direct:development'}}")>>,
                                <<"run", Str("gh pr review \"$PR_URL\" --approve -b \"I'm **approving** this pull request because **it includes a major update of a dependency only used in development**\"")>>>>),
                         Dict(<<<<"name", Str("Comment major updates of production dependencies")>>,
                                <<"if", Str("${{steps.dependabot-metadata.outputs.update-type == 'version-update:semver-major' && steps.dependabot-metadata.outputs.dependency-type == 'direct:production'}}")>>,
                                <<"run", Join(<<
                                    "gh pr comment $PR_URL --body \"I'm **not approving** this PR because **it includes a major update of a dependency used in production**\"",
                                    "gh pr edit $PR_URL --add-label \"requires-manual-qa\"",
                                    "gh pr edit $PR_URL --add-assignee ${{ github.repository_owner }}">>)>>,
                                <<"env", PrEnv>>>>),
                         Dict(<<<<"name", Str("Enable auto merge")>>,
                                <<"if", Str("${{ github.event.pull_request.assignees != null }}")>>,
                                <<"run", Str("gh pr merge --auto --merge \"$PR_URL\"")>>,
                                <<"env", PrEnv>>>>)>>)>>>>))
              ELSE j2
        j4 == IF kw.commit_linter
              THEN SetItem(j3, "commit-linter", Dict(<<
                     <<"name", Str("Commit linter")>>,
                     <<"runs-on", Str("ubuntu-latest")>>,
                     <<"if", Str("${{ github.event.pull_request.user.login != 'dependabot[bot]' }}")>>,
                     <<"steps", List(<<
                         Dict(<<<<"name", Str("Check commit messages")>>,
                                <<"uses", Str("opensource-nepal/commitlint@v1")>>>>)>>)>>>>))
              ELSE j3
    IN  j4

\* PythonBuildAction.get_steps
PythonBuildAction_get_steps ==
    List(<<Dict(<<<<"name", Str("Install git")>>,
                  <<"shell", Str("bash")>>,
                  <<"run", Str("apt update && apt install git -y")>>>>),
           Dict(<<<<"name", Str("Checkout")>>,
                  <<"uses", Str("actions/checkout@v4")>>>>),
           Dict(<<<<"name", Str("Install dependencies")>>,
                  <<"shell", Str("bash")>>,
                  <<"run", Join(<<"pip install -r requirements.txt",
                                  "poetry install --with=dev">>)>>>>)>>)

\* Action.get_steps
Action_get_steps == List(<<>>)

get_steps(cls, uc) ==
    IF Attr(cls, "get_steps", uc) = "PythonBuildAction"
    THEN PythonBuildAction_get_steps
    ELSE Action_get_steps

\* Action.get_action_definition
get_action_definition(cls, uc) ==
    Dict(<<<<"name", Str(Attr(cls, "action_name", uc))>>,
           <<"description", Str(Attr(cls, "description", uc))>>,
           <<"runs", Dict(<<<<"using", Str(Attr(cls, "using", uc))>>,
                            <<"steps", get_steps(cls, uc)>>>>)>>>>)

\* ------------------------------------------- the test-pipeline job graph
\* str.lower() on what is typed at a prompt
Lower(s) ==
    CASE s = "Y" -> "y"
      [] s = "N" -> "n"
      [] s = "YES" -> "yes"
      [] s = "NO" -> "no"
      [] OTHER -> s

\* str.replace("_", "-") on the names of the test suites
UnderscoreToDash(s) ==
    CASE s = "unit_tests" -> "unit-tests"
      [] s = "all_tests" -> "all-tests"
      [] OTHER -> s

\* GitHubPythonTest.prompt_bool: reads stdin until a valid answer; input()
\* raises EOFError when nothing is left to read
RECURSIVE prompt_bool(_, _)
prompt_bool(stdin, default) ==
    IF stdin = <<>>
    THEN [raised |-> "EOFError", value |-> FALSE, stdin |-> stdin]
    ELSE LET choice == Lower(Head(stdin))
         IN  IF choice \notin {"y", "yes", "n", "no", ""}
             THEN prompt_bool(Tail(stdin), default)
             ELSE [raised |-> None,
                   value |-> IF choice = "" THEN default ELSE choice \in {"y", "yes"},
                   stdin |-> Tail(stdin)]

\* the selection without the word "ALL"
Selected_by_name(name, tests, stdin) ==
    IF tests = <<>> THEN prompt_bool(stdin, TRUE)
    ELSE [raised |-> None, value |-> name \in Range(tests), stdin |-> stdin]

\* 'if not tests: prompt_bool(...) else: name in tests or "ALL" in tests'
Selected(name, tests, stdin) ==
    IF tests = <<>>
    THEN prompt_bool(stdin, TRUE)
    ELSE [raised |-> None,
          value |-> name \in Range(tests) \/ "ALL" \in Range(tests),
          stdin |-> stdin]

get_checkout == Dict(<<<<"name", Str("Checkout")>>, <<"uses", Str("actions/checkout@v4")>>>>)

get_build == Dict(<<<<"name", Str("Build")>>, <<"uses", Str("./.github/actions/build")>>>>)

get_file_changed ==
    Dict(<<<<"name", Str("File changed")>>,
           <<"id", Str("file-changed")>>,
           <<"uses", Str("tj-actions/changed-files@v44")>>,
           <<"with", Dict(<<<<"files", Str("**/*.py")>>>>)>>>>)

\* the job definition of a linter or static test
LinterJob(title, steps) ==
    Dict(<<<<"name", Str(title)>>,
           <<"runs-on", Str("ubuntu-latest")>>,
           <<"container", Str("python:3.12-slim-bookworm")>>,
           <<"if", Str("${{ github.event_name == 'pull_request' }}")>>,
           <<"steps", List(steps)>>>>)

\* the job definition of a test suite or of coverage
TestJob(title, steps) ==
    Dict(<<<<"name", Str(title)>>,
           <<"runs-on", Str("ubuntu-latest")>>,
           <<"container", Str("python:3.12-slim-bookworm")>>,
           <<"steps", List(steps)>>>>)

\* one 'if selected: jobs[name] = job' of the builders below; b carries the
\* jobs built so far, what is left on stdin and the exception raised, if any
AddIfSelected(b, name, tests, job) ==
    IF b.raised # None THEN b
    ELSE LET sel == Selected(name, tests, b.stdin)
         IN  [raised |-> sel.raised,
              stdin |-> sel.stdin,
              jobs |-> IF sel.raised = None /\ sel.value
                       THEN SetItem(b.jobs, name, job)
                       ELSE b.jobs]

\* GitHubPythonTest.get_linters
get_linters(b, kw) ==
    LET b1 == AddIfSelected(b, "ruff", kw.tests,
                LinterJob("Python linter: ruff",
                  <<get_checkout, get_build, get_file_changed,
                    Dict(<<<<"name", Str("Run ruff")>>,
                           <<"id", Str("run-ruff")>>,
                           <<"if", Str("${{ steps.file-changed.outputs.any_changed == 'true' }}")>>,
                           <<"run", Str("poetry run python-ruff ${{ steps.file-changed.outputs.all_changed_files }}")>>>>)>>))
    IN  AddIfSelected(b1, "lock", kw.tests,
                LinterJob("Python linter: poetry lock check",
                  <<get_checkout, get_build,
                    Dict(<<<<"name", Str("Run poetry lock check")>>,
                           <<"id", Str("run-lock")>>,
                           <<"run", Str("poetry lock --check")>>>>)>>))

\* GitHubPythonTest.get_static_tests
get_static_tests(b, kw) ==
    LET b1 == AddIfSelected(b, "mypy", kw.tests,
                LinterJob("Python linter: mypy",
                  <<get_checkout, get_build, get_file_changed,
                    Dict(<<<<"name", Str("Run mypy")>>,
                           <<"id", Str("run-mypy")>>,
                           <<"run", Str("poetry run python-type-check ${{ steps.file-changed.outputs.all_changed_files }}")>>>>)>>))
    IN  AddIfSelected(b1, "importlinter", kw.tests,
                LinterJob("Python linter: import linter",
                  <<get_checkout, get_build, get_file_changed,
                    Dict(<<<<"name", Str("Run import linter")>>,
                           <<"id", Str("run-importlinter")>>,
                           <<"run", Str("poetry run python-check-imports")>>>>)>>))

\* GitHubPythonTest.get_tests; all_tests are the names of get_all_tests()
get_tests(b, kw, all_tests) ==
    LET RECURSIVE Loop(_, _)
        Loop(ts, x) ==
            IF ts = <<>> THEN x
            ELSE Loop(Tail(ts),
                      AddIfSelected(x, Head(ts), kw.tests,
                        TestJob("Python test: " \o Head(ts),
                          <<get_checkout, get_build,
                            Dict(<<<<"name", Str("Run " \o Head(ts))>>,
                                   <<"id", Str("run-" \o UnderscoreToDash(Head(ts)))>>,
                                   <<"run", Str("poetry run python-test-suite " \o Head(ts))>>>>)>>)))
    IN  IF b.raised # None THEN b
        ELSE IF all_tests = <<>>
        THEN \* the answer is computed and not used: the job is always added
             LET sel == Selected("pytest", kw.tests, b.stdin)
             IN  [raised |-> sel.raised,
                  stdin |-> sel.stdin,
                  jobs |-> IF sel.raised # None THEN b.jobs
                           ELSE SetItem(b.jobs, "pytest",
                                  TestJob("Python test",
                                    <<get_checkout, get_build,
                                      Dict(<<<<"name", Str("Run pytest")>>,
                                             <<"id", Str("run-pytest")>>,
                                             <<"run", Str("poetry run python-tests")>>>>)>>))]
        ELSE Loop(all_tests, b)

\* GitHubPythonTest.get_coverage
get_coverage(b, kw) ==
    IF b.raised # None THEN b
    ELSE LET sel == Selected("coverage", kw.tests, b.stdin)
             fail_under_param ==
                 IF kw.coverage_fail_under # 0
                 THEN "--fail-under=" \o ToString(kw.coverage_fail_under)
                 ELSE ""
         IN  IF sel.raised # None \/ ~sel.value
             THEN [raised |-> sel.raised, stdin |-> sel.stdin, jobs |-> b.jobs]
             ELSE IF kw.coverage_fail_regressed
             THEN [raised |-> "NotImplementedError", stdin |-> sel.stdin, jobs |-> b.jobs]
             ELSE [raised |-> None,
                   stdin |-> sel.stdin,
                   jobs |-> SetItem(b.jobs, "coverage",
                     TestJob("Python test: coverage",
                       <<get_checkout, get_build,
                         Dict(<<<<"name", Str("Run coverage")>>,
                                <<"id", Str("run-coverage")>>,
                                <<"run", Str("poetry run python-coverage " \o fail_under_param)>>>>),
                         Dict(<<<<"name", Str("Upload coverage")>>,
                                <<"id", Str("upload-coverage")>>,
                                <<"uses", Str("codecov/codecov-action@v4")>>,
                                <<"with", Dict(<<<<"files", Str("coverage/report.xml")>>,
                                                 <<"fail_ci_if_error", Str("true")>>,
                                                 <<"verbose", Str("true")>>>>)>>>>)>>))]

\* a RESULTS line that names the same job whatever job is needed
ResultLine_of_ruff(need) == "${{ needs.ruff.result =='success' }}"

\* the line of RESULTS written for one required job
ResultLine(need) == "${{ needs." \o need \o ".result =='success' }}"

GateScript ==
    <<"echo ${{ RESULTS }}",
      "for r in $RESULTS",
      "do",
      "    if [ $r = \"success\" ] || [ $r = \"skipped\" ];",
      "    then",
      "        true",
      "    else",
      "        echo \"Some tests failed\"",
      "        exit 1",
      "    fi",
      "done",
      "echo \"All tests passed\"">>

\* the value of the env entry RESULTS when the gate job runs: each line is an
\* expression that compares the result of one needed job with 'success', and
\* an expression that is a comparison has the value true or false
EvalResults(lines, result) ==
    [i \in DOMAIN lines |->
        IF \E need \in DOMAIN result :
               lines[i] = ResultLine(need) /\ result[need] = "success"
        THEN "true" ELSE "false"]

\* the exit status of the step script of the gate job over the words of
\* $RESULTS: 'for r in $RESULTS', 'exit 1' at the first word that is neither
\* "success" nor "skipped"
RECURSIVE RunGateScript(_)
RunGateScript(words) ==
    IF words = <<>> THEN 0
    ELSE IF Head(words) = "success" \/ Head(words) = "skipped"
         THEN RunGateScript(Tail(words))
         ELSE 1

\* GitHubPythonTest.get_tests_passed; required.none is 'required is None'
get_tests_passed(b, kw) ==
    LET RECURSIVE Loop(_, _)
        \* x: [raised, stdin, all_required]
        Loop(names, x) ==
            IF names = <<>> \/ x.raised # None THEN x
            ELSE LET name == Head(names)
                     ans == IF kw.required.none
                            THEN prompt_bool(x.stdin, TRUE)
                            ELSE [raised |-> None,
                                  value |-> name \in Range(kw.required.items)
                                            \/ "ALL" \in Range(kw.required.items),
                                  stdin |-> x.stdin]
                 IN  Loop(Tail(names),
                          [raised |-> ans.raised,
                           stdin |-> ans.stdin,
                           all_required |-> IF ans.raised = None /\ ans.value
                                            THEN Append(x.all_required, name)
                                            ELSE x.all_required])
    IN  IF b.raised # None THEN b
        ELSE LET r == Loop(Keys(b.jobs), [raised |-> None, stdin |-> b.stdin, all_required |-> <<>>])
             IN  IF r.raised # None \/ r.all_required = <<>>
                 THEN [raised |-> r.raised, stdin |-> r.stdin, jobs |-> b.jobs]
                 ELSE [raised |-> None,
                       stdin |-> r.stdin,
                       jobs |-> SetItem(b.jobs, "python-tests-passed", Dict(<<
                           <<"name", Str("Python test: OK")>>,
                           <<"runs-on", Str("ubuntu-latest")>>,
                           <<"container", Str("python:3.12-slim-bookworm")>>,
                           <<"if", Str("${{ always() }}")>>,
                           <<"needs", List([i \in DOMAIN r.all_required |-> Str(r.all_required[i])])>>,
                           <<"env", Dict(<<<<"RESULTS",
                                Join([i \in DOMAIN r.all_required |-> ResultLine(r.all_required[i])])>>>>)>>,
                           <<"steps", List(<<Dict(<<
                                <<"id", Str("test-results")>>,
                                <<"name", Str("Test results")>>,
                                <<"run", Join(GateScript)>>>>)>>)>>>>))]

\* GitHubPythonTest.get_jobs
GitHubPythonTest_get_jobs(kw, stdin, all_tests) ==
    LET b0 == [raised |-> None, stdin |-> stdin, jobs |-> OrderedDict(<<>>)]
        b1 == get_linters(b0, kw)
        b2 == get_static_tests(b1, kw)
        b3 == get_tests(b2, kw, all_tests)
        b4 == get_coverage(b3, kw)
    IN  get_tests_passed(b4, kw)

\* ---------------------------------------------------- the pipeline document
\* the one-job graph a user-defined get_jobs returns
UserJobs ==
    OrderedDict(<<<<"build", Dict(<<
        <<"name", Str("Build")>>,
        <<"runs-on", Str("ubuntu-latest")>>,
        <<"steps", List(<<Dict(<<<<"name", Str("Make")>>, <<"run", Str("make")>>>>)>>)>>>>)>>>>)

\* self.get_permissions(): the hook the class inherits or overrides
get_permissions(cls, uc) ==
    CASE Attr(cls, "get_permissions", uc) = "Workflow" -> Workflow_get_permissions
      [] Attr(cls, "get_permissions", uc) = "ApprovalBot" -> ApprovalBot_get_permissions
      [] Attr(cls, "get_permissions", uc) = "user" -> Dict(<<<<"contents", Str("read")>>>>)

\* self.get_triggers(): a user-defined override returns the empty mapping
get_triggers(cls, uc) ==
    CASE Attr(cls, "get_triggers", uc) = "Workflow" -> Workflow_get_triggers
      [] Attr(cls, "get_triggers", uc) = "ApprovalBot" -> ApprovalBot_get_triggers
      [] Attr(cls, "get_triggers", uc) = "user" -> Dict(<<>>)

\* self.get_jobs(): Workflow.get_jobs raises NotImplementedError
get_jobs(cls, kw, env, all_tests, uc) ==
    CASE Attr(cls, "get_jobs", uc) = "Workflow" ->
            [raised |-> "NotImplementedError", stdin |-> env.stdin, jobs |-> OrderedDict(<<>>)]
      [] Attr(cls, "get_jobs", uc) = "ApprovalBot" ->
            [raised |-> None, stdin |-> env.stdin, jobs |-> ApprovalBot_get_jobs(kw)]
      [] Attr(cls, "get_jobs", uc) = "GitHubPythonTest" ->
            GitHubPythonTest_get_jobs(kw, env.stdin, all_tests)
      [] Attr(cls, "get_jobs", uc) = "user" ->
            [raised |-> IF env.user = "ok" THEN None ELSE env.user,
             stdin |-> env.stdin,
             jobs |-> IF env.user = "ok" THEN UserJobs ELSE OrderedDict(<<>>)]

\* Workflow.get_workflow_definition
get_workflow_definition(cls, kw, env, all_tests, uc) ==
    LET w0 == OrderedDict(<<>>)
        w1 == SetItem(w0, "name", Str(Attr(cls, "workflow_name", uc)))
        w2 == SetItem(w1, "run-name", Str(Attr(cls, "workflow_id", uc)))
        permissions == get_permissions(cls, uc)
        w3 == IF Truthy(permissions) THEN SetItem(w2, "permissions", permissions) ELSE w2
        w4 == SetItem(w3, "on", get_triggers(cls, uc))
        WithJobs(j) == [raised |-> j.raised, doc |-> SetItem(w4, "jobs", j.jobs)]
    IN  WithJobs(get_jobs(cls, kw, env, all_tests, uc))

\* ------------------------------------------------------------ serialisation
\* the keys of the documents in the order Python sorts str
SortedKeys ==
    <<"GITHUB_TOKEN", "PR_URL", "RESULTS", "branches", "container", "contents",
      "description", "env", "fail_ci_if_error", "files", "id", "if", "jobs",
      "name", "needs", "on", "permissions", "pull-requests", "pull_request",
      "push", "run", "run-name", "runs", "runs-on", "shell", "steps", "uses",
      "using", "verbose", "with">>

KeyRanks == [k \in Range(SortedKeys) |-> CHOOSE i \in DOMAIN SortedKeys : SortedKeys[i] = k]

KeyRank(k) == KeyRanks[k]

\* sorted(mapping.items()): the items of a dict by ascending key
RECURSIVE SortItems(_)
SortItems(kv) ==
    IF kv = <<>> THEN <<>>
    ELSE LET m == CHOOSE i \in DOMAIN kv :
                     \A j \in DOMAIN kv : KeyRank(kv[i][1]) <= KeyRank(kv[j][1])
         IN  <<kv[m]>> \o SortItems(SubSeq(kv, 1, m - 1) \o SubSeq(kv, m + 1, Len(kv)))

\* multiline_str_representer without the test for a line break
multiline_str_representer_plain(data) ==
    [t |-> "scalar", style |-> "", lines |-> data.lines]

\* multiline_str_representer
multiline_str_representer(data) ==
    IF Len(data.lines) > 1
    THEN [t |-> "scalar", style |-> "|", lines |-> data.lines]
    ELSE [t |-> "scalar", style |-> "", lines |-> data.lines]

\* the items of each kind of mapping as the dumper emits them: an OrderedDict
\* goes through the representer registered for it, which hands over items()
\* as they are; a dict goes through represent_dict, which sorts (sort_keys)
RepresentedItems(data) == IF data.t = "odict" THEN data.kv ELSE SortItems(data.kv)

\* yaml.dump(data): the node tree written to the file
RECURSIVE dump(_)
dump(data) ==
    CASE data.t = "str" -> multiline_str_representer(data)
      [] data.t = "list" ->
            [t |-> "sequence", items |-> [i \in DOMAIN data.items |-> dump(data.items[i])]]
      [] data.t \in {"dict", "odict"} ->
            LET items == RepresentedItems(data)
            IN  [t |-> "mapping",
                 kv |-> [i \in DOMAIN items |-> <<items[i][1], dump(items[i][2])>>]]

\* the breaks of a flow scalar as the emitter writes them: every line break of
\* the value becomes a break followed by one more empty line
RECURSIVE write_breaks(_)
write_breaks(lines) ==
    IF Len(lines) <= 1 THEN lines
    ELSE <<Head(lines), "">> \o write_breaks(Tail(lines))

\* the lines without the empty lines that end them
RECURSIVE strip_breaks(_)
strip_breaks(lines) ==
    IF lines # <<>> /\ Last(lines) = "" THEN strip_breaks(SubSeq(lines, 1, Len(lines) - 1))
    ELSE lines

\* the text yaml.dump writes for a scalar node: a literal block under "|"
\* opens with the style and its chomping indicator ("-" when the value does
\* not end with a line break, "+" when it ends with more than one) and has
\* the lines of the value below it; any other scalar is a flow scalar
emit_scalar(node) ==
    IF node.style = "|"
    THEN LET n == Len(node.lines)
             chomp == IF node.lines[n] # "" THEN "-"
                      ELSE IF n > 1 /\ node.lines[n - 1] = "" THEN "+" ELSE ""
         IN  [header |-> "|" \o chomp,
              body |-> IF chomp = "-" THEN node.lines ELSE SubSeq(node.lines, 1, n - 1)]
    ELSE [header |-> "", body |-> write_breaks(node.lines)]

\* the lines of a flow scalar read back: a single break folds into a space,
\* a break followed by an empty line is a line break of the value
RECURSIVE scan_flow_scalar(_)
scan_flow_scalar(body) ==
    IF Len(body) <= 1 THEN body
    ELSE IF body[2] = "" THEN <<body[1]>> \o scan_flow_scalar(SubSeq(body, 3, Len(body)))
    ELSE scan_flow_scalar(<<body[1] \o " " \o body[2]>> \o SubSeq(body, 3, Len(body)))

\* the str a YAML reader constructs from the text of a scalar: a literal
\* block keeps its line breaks, and its indicator says what becomes of the
\* breaks that end it (strip, clip to one, keep)
load_scalar(text) ==
    CASE text.header = "|-" -> [t |-> "str", lines |-> strip_breaks(text.body)]
      [] text.header = "|" -> [t |-> "str", lines |-> strip_breaks(text.body) \o <<"">>]
      [] text.header = "|+" -> [t |-> "str", lines |-> text.body \o <<"">>]
      [] text.header = "" -> [t |-> "str", lines |-> scan_flow_scalar(text.body)]

\* a file opened for writing and closed with nothing written
EmptyFile == [t |-> "empty"]

\* ------------------------------------------------------ create and delete
\* Workflow.workflow_path
workflow_path(cls, uc) == BASE_WORKFLOW_DIR \o "/" \o Attr(cls, "workflow_id", uc) \o ".yml"

\* Action.action_path
action_path(cls, uc) == BASE_ACTION_DIR \o "/" \o Attr(cls, "action_id", uc)

ActionFile(cls, uc) == action_path(cls, uc) \o "/action.yml"

\* os.remove(path) of an existing file
Remove(fs, path) == [x \in DOMAIN fs \ {path} |-> fs[x]]

Names(tests, uc) == [i \in DOMAIN tests |-> Attr(tests[i].cls, "name", uc)]

\* the result of a method: the state it leaves, the exception it raised (None
\* when it returned) and the message the exception carries
Returned(st) == [st |-> st, raised |-> None, msg |-> ""]

Raised(st, exc, msg) == [st |-> st, raised |-> exc, msg |-> msg]

\* Workflow.create: the file is opened (and so truncated) before the document
\* is assembled
Workflow_create(inst, args, env, st, uc) ==
    LET path == workflow_path(inst.cls, uc)
        \* yaml.dump(self.get_workflow_definition(...), f) on the open file
        Dump(st2, d) ==
            IF d.raised # None THEN Raised(st2, d.raised, "")
            ELSE Returned([st2 EXCEPT !.files = DictSet(@, path, dump(d.doc))])
        \* with self.workflow_path().open("w") as f
        Open(st1) ==
            IF env.io_error THEN Raised(st1, "OSError", "")
            ELSE Dump([st1 EXCEPT !.files = DictSet(@, path, EmptyFile),
                                  !.written = @ \cup {path}],
                      get_workflow_definition(inst.cls, args.kw, env,
                                              Names(st.tests, uc), uc))
    \* BASE_WORKFLOW_DIR.mkdir(parents=True, exist_ok=True)
    IN  Open([st EXCEPT !.dirs = @ \cup {"/project/.github", BASE_WORKFLOW_DIR}])

\* Workflow.delete
Workflow_delete(inst, st, uc) ==
    LET path == workflow_path(inst.cls, uc)
    IN  IF path \in DOMAIN st.files
        THEN Returned([st EXCEPT !.files = Remove(@, path)])
        ELSE Returned(st)

\* Action.create
Action_create(inst, env, st, uc) ==
    LET path == ActionFile(inst.cls, uc)
        st1 == [st EXCEPT !.dirs = @ \cup {"/project/.github", BASE_ACTION_DIR,
                                           action_path(inst.cls, uc)}]
    IN  IF env.io_error THEN Raised(st1, "OSError", "")
        ELSE Returned([st1 EXCEPT !.files =
                          DictSet(@, path, dump(get_action_definition(inst.cls, uc))),
                                  !.written = @ \cup {path}])

\* Action.delete as it would be if it tested for the file first, as
\* Workflow.delete does
Action_delete_if_exists(inst, st, uc) ==
    LET path == ActionFile(inst.cls, uc)
    IN  IF path \in DOMAIN st.files
        THEN Returned([st EXCEPT !.files = Remove(@, path)])
        ELSE Returned(st)

\* Action.delete: os.remove raises FileNotFoundError when there is no file
Action_delete(inst, st, uc) ==
    LET path == ActionFile(inst.cls, uc)
    IN  IF path \in DOMAIN st.files
        THEN Returned([st EXCEPT !.files = Remove(@, path)])
        ELSE Raised(st, "FileNotFoundError", "")

\* the argument list ["create"] as the parser of an Action reads it
CreateArgs == [bad |-> FALSE, sub |-> "create", kw |-> <<>>, raw |-> <<"create">>]

RECURSIVE Call(_, _, _, _, _)

\* GitHubPythonTest.create
GitHubPythonTest_create(inst, args, env, st, uc) ==
    LET Outcome(c) == Raised(c.st, c.raised, "")
        \* build_action(["create"])
        Build(build_action) ==
            Outcome(Call(build_action.inst, CreateArgs, env, build_action.st, uc))
        \* super().create(...), then PythonBuildAction.as_command()
        After(r) ==
            IF r.raised # None THEN r
            ELSE Build(as_command("PythonBuildAction", r.st, uc))
    IN  After(Workflow_create(inst, args, env, st, uc))

\* Workflow.handle and Action.handle: func is the sub-command's method
Builder_handle(inst, args, env, st, uc) ==
    IF args.sub = None
    THEN Raised(st, "CommandError", "No command provided. Use 'add' or 'delete' command.")
    ELSE IF args.sub = "create"
    THEN CASE Attr(inst.cls, "create", uc) = "Workflow" -> Workflow_create(inst, args, env, st, uc)
           [] Attr(inst.cls, "create", uc) = "GitHubPythonTest" ->
                 GitHubPythonTest_create(inst, args, env, st, uc)
           [] Attr(inst.cls, "create", uc) = "Action" -> Action_create(inst, env, st, uc)
    ELSE CASE Attr(inst.cls, "delete", uc) = "Workflow" -> Workflow_delete(inst, st, uc)
           [] Attr(inst.cls, "delete", uc) = "Action" -> Action_delete(inst, st, uc)

\* ------------------------------------------------------------- the handles
\* Pytest.handle: pytest.cmdline.main returns non-zero for a failing suite
Pytest_handle(inst, env, st, uc) ==
    LET name == Attr(inst.cls, "name", uc)
        st1 == [st EXCEPT !.ran = Append(@, name)]
    IN  IF name \in env.failing THEN Raised(st1, "CommandError", "") ELSE Returned(st1)

SummaryLine(name, status) == [name |-> name, status |-> status]

\* the loop of NamedPytest.handle and AllPythonTests.handle over the suites
\* ts: a CommandError of a suite is caught and recorded in the summary
RECURSIVE RunAndRecord(_, _, _, _)
RunAndRecord(ts, x, env, uc) ==
    IF ts = <<>> THEN x
    ELSE LET r == Pytest_handle(Head(ts), env, x.st, uc)
         IN  RunAndRecord(Tail(ts),
                 [st |-> r.st,
                  has_failed |-> x.has_failed \/ r.raised = "CommandError",
                  summary |-> Append(x.summary,
                      SummaryLine(Attr(Head(ts).cls, "name", uc),
                                  IF r.raised = "CommandError" THEN "failed" ELSE "passed"))],
                 env, uc)

PrintSummary(st, summary) == [st EXCEPT !.stdout = @ \o summary]

\* NamedPytest.handle
NamedPytest_handle(inst, args, env, st, uc) ==
    LET names == args.kw.names
        selected == SelectSeq(st.tests, LAMBDA test : Attr(test.cls, "name", uc) \in Range(names))
        r == RunAndRecord(selected, [st |-> st, has_failed |-> FALSE, summary |-> <<>>], env, uc)
    IN  IF r.summary = <<>> THEN Raised(r.st, "CommandError", "No tests found.")
        ELSE IF r.has_failed
        THEN Raised(PrintSummary(r.st, r.summary), "CommandError", "One or more tests failed.")
        ELSE Returned(PrintSummary(r.st, r.summary))

\* AllPythonTests.handle: the parser it builds declares no argument, so it
\* exits with status 2 on any
AllPythonTests_handle(inst, args, env, st, uc) ==
    LET r == RunAndRecord(st.tests, [st |-> st, has_failed |-> FALSE, summary |-> <<>>], env, uc)
    IN  IF args.raw # <<>>
        THEN Raised([st EXCEPT !.stderr = Append(@, "usage")], "SystemExit(2)", "")
        ELSE IF r.has_failed
        THEN Raised(PrintSummary(r.st, r.summary), "CommandError", "One or more tests failed.")
        ELSE Returned(PrintSummary(r.st, r.summary))

\* Coverage.handle: every suite runs under contextlib.suppress(CommandError)
Coverage_handle(inst, args, env, st, uc) ==
    LET RECURSIVE Loop(_, _)
        Loop(ts, s) ==
            IF ts = <<>> THEN s
            ELSE Loop(Tail(ts), Pytest_handle(Head(ts), env, s, uc).st)
        st1 == Loop(st.tests, st)
    IN  IF env.cov_rate < args.kw.fail_under
        THEN Raised(st1, "CommandError",
                    "Coverage is below " \o ToString(args.kw.fail_under)
                    \o "%. Current coverage is " \o ToString(env.cov_rate) \o "%")
        ELSE Returned(st1)

\* Ruff.get_args
Ruff_get_args(kw) ==
    <<"check">> \o (IF kw.fix THEN <<"--fix">> ELSE <<>>) \o kw.files

\* self.get_args(*args, **kwargs)
get_args(cls, kw, uc) ==
    IF Attr(cls, "get_args", uc) = "Ruff" THEN Ruff_get_args(kw) ELSE <<>>

\* subprocess.Popen(...) with what the hooks return, then process.wait():
\* the child as launched, and the exit status that wait returns once the
\* child has exited
Popen_wait(cls, kw, env, uc) ==
    [argv |-> <<Attr(cls, "command_name", uc)>> \o get_args(cls, kw, uc),
     cwd |-> Attr(cls, "cwd", uc),
     env |-> EmptyFn,
     stdout |-> "sys.stdout",
     stderr |-> "sys.stderr",
     exited |-> TRUE,
     status |-> env.tool]

\* ExecCommand.handle without the test of the exit status
ExecCommand_handle_unchecked(inst, args, env, st, uc) ==
    Returned([st EXCEPT !.children = Append(@, Popen_wait(inst.cls, args.kw, env, uc))])

\* ExecCommand.handle: one child is launched and waited for, and its exit
\* status decides
ExecCommand_handle(inst, args, env, st, uc) ==
    LET Waited(process) ==
            IF process.status # 0
            THEN Raised([st EXCEPT !.children = Append(@, process)], "CommandError", "")
            ELSE Returned([st EXCEPT !.children = Append(@, process)])
    IN  Waited(Popen_wait(inst.cls, args.kw, env, uc))

\* MyPy.handle: the SystemExit of mypy.main becomes a CommandError
MyPy_handle(inst, args, env, st, uc) ==
    IF env.tool # 0 THEN Raised(st, "CommandError", "") ELSE Returned(st)

\* ImportLinter.handle
ImportLinter_handle(inst, args, env, st, uc) ==
    IF env.tool # 0 THEN Raised(st, "CommandError", "") ELSE Returned(st)

\* a handle written by the user of the package: the environment decides
User_handle(inst, args, env, st, uc) ==
    IF env.user = "ok" THEN Returned(st)
    ELSE Raised(st, env.user, IF env.user = "CommandError" THEN "user command failed" ELSE "")

\* self.handle(...)
handle(inst, args, env, st, uc) ==
    LET h == Attr(inst.cls, "handle", uc)
    IN  CASE h = "_BaseCommand" -> Raised(st, "NotImplementedError", "")
          [] h \in {"Workflow", "Action"} -> Builder_handle(inst, args, env, st, uc)
          [] h = "ExecCommand" -> ExecCommand_handle(inst, args, env, st, uc)
          [] h = "Pytest" -> Pytest_handle(inst, env, st, uc)
          [] h = "NamedPytest" -> NamedPytest_handle(inst, args, env, st, uc)
          [] h = "AllPythonTests" -> AllPythonTests_handle(inst, args, env, st, uc)
          [] h = "Coverage" -> Coverage_handle(inst, args, env, st, uc)
          [] h = "MyPy" -> MyPy_handle(inst, args, env, st, uc)
          [] h = "ImportLinter" -> ImportLinter_handle(inst, args, env, st, uc)
          [] h = "user" -> User_handle(inst, args, env, st, uc)

\* ------------------------------------------------- the invocation boundary
\* set_cwd up to its yield: remembers the current directory, changes to the
\* override when the class declares one
set_cwd_enter(cls, st, uc) ==
    [saved |-> st.cwd,
     st |-> IF Attr(cls, "cwd", uc) # None
            THEN [st EXCEPT !.cwd = Attr(cls, "cwd", uc)]
            ELSE st]

\* set_cwd without the os.chdir(_cwd) after its yield
set_cwd_exit_stay(saved, h) == h.st

\* set_cwd after its yield; h is the result of the with body.  An exception
\* of the body is thrown into the generator at the yield, which does not
\* catch it, so os.chdir(_cwd) runs only when the body returned
set_cwd_exit(saved, h) ==
    IF h.raised = None THEN [h.st EXCEPT !.cwd = saved] ELSE h.st

\* the start of __call__: the parser of a Command rejects a malformed
\* argument list with exit status 2 before anything else happens
Enter(inst, args, st, uc) ==
    IF Attr(inst.cls, "call", uc) = "Command" /\ args.bad
    THEN [raised |-> "SystemExit(2)", saved |-> st.cwd,
          st |-> [st EXCEPT !.stderr = Append(@, "usage")]]
    ELSE LET e == set_cwd_enter(inst.cls, st, uc)
         IN  [raised |-> None, saved |-> e.saved, st |-> e.st]

\* __call__ as it would be without its except clause
Leave_uncaught(inst, saved, h, uc) ==
    [st |-> set_cwd_exit(saved, h), raised |-> h.raised, caught |-> 0]

\* __call__ as it would be with 'except Exception' in place of
\* 'except CommandError'
Leave_catch_all(inst, saved, h, uc) ==
    LET st1 == set_cwd_exit(saved, h)
    IN  IF h.raised # None /\ h.raised \notin {"SystemExit(1)", "SystemExit(2)"}
        THEN [st |-> [st1 EXCEPT !.stderr = Append(@, h.msg)],
              raised |-> "SystemExit(1)", caught |-> 1]
        ELSE [st |-> st1, raised |-> h.raised, caught |-> 0]

\* the end of __call__: the with statement is left, then the except clause
\* of Command.__call__ and CommandWithParser.__call__ turns a CommandError
\* into print(err, file=sys.stderr) and exit(1)
Leave(inst, saved, h, uc) ==
    LET st1 == set_cwd_exit(saved, h)
    IN  IF /\ Attr(inst.cls, "call", uc) \in {"Command", "CommandWithParser"}
           /\ h.raised = "CommandError"
        THEN [st |-> [st1 EXCEPT !.stderr = Append(@, h.msg)],
              raised |-> "SystemExit(1)", caught |-> 1]
        ELSE [st |-> st1, raised |-> h.raised, caught |-> 0]

\* instance(args): a whole invocation.  Besides the state it leaves and the
\* exception that leaves it, the result records what handle raised (result),
\* the directory handle ran in (seen_cwd) and the one current before (saved)
Call(inst, args, env, st, uc) ==
    LET Left(e, h, l) ==
            [st |-> l.st, raised |-> l.raised, caught |-> l.caught, entered |-> TRUE,
             result |-> h.raised, msg |-> h.msg, saved |-> e.saved,
             seen_cwd |-> e.st.cwd]
        Handled(e, h) == Left(e, h, Leave(inst, e.saved, h, uc))
        Entered(e) ==
            IF e.raised # None
            THEN [st |-> e.st, raised |-> e.raised, caught |-> 0, entered |-> FALSE,
                  result |-> None, msg |-> "", saved |-> e.saved, seen_cwd |-> None]
            ELSE Handled(e, handle(inst, args, env, e.st, uc))
    IN  Entered(Enter(inst, args, st, uc))

\* ------------------------------------------------------------------ inputs
NoArgs == [bad |-> FALSE, sub |-> None, kw |-> <<>>, raw |-> <<>>]

BadArgs == [bad |-> TRUE, sub |-> None, kw |-> <<>>, raw |-> <<"--no-such-option">>]

Sub(sub, kw) == [bad |-> FALSE, sub |-> sub, kw |-> kw, raw |-> <<sub>>]

Kw(kw) == [bad |-> FALSE, sub |-> None, kw |-> kw, raw |-> <<>>]

Raw(raw) == [bad |-> FALSE, sub |-> None, kw |-> <<>>, raw |-> raw]

Required(items) == [none |-> FALSE, items |-> items]

NotGiven == [none |-> TRUE, items |-> <<>>]

ApprovalKw(o, d, l, c) ==
    [owner |-> o, dependabot |-> d, commit_linter |-> l, clear_automerge |-> c]

TestKw(tests, required, under, regressed) ==
    [tests |-> tests, required |-> required, coverage_fail_under |-> under,
     coverage_fail_regressed |-> regressed]

\* the options of 'create' that are tried for a builder of class cls; the
\* specification of the artifacts tries more of them (rich)
CreateKws(cls, uc, rich) ==
    CASE AttrOr(cls, "get_jobs", uc, None) = "ApprovalBot" ->
            IF rich
            THEN {ApprovalKw(FALSE, FALSE, FALSE, FALSE), ApprovalKw(TRUE, TRUE, TRUE, TRUE),
                  ApprovalKw(FALSE, TRUE, FALSE, FALSE)}
            ELSE {}
      [] AttrOr(cls, "get_jobs", uc, None) = "GitHubPythonTest" ->
            {TestKw(<<"ruff">>, Required(<<"ruff">>), 80, FALSE)}
            \cup IF rich
                 THEN {TestKw(<<"ALL">>, Required(<<"ALL">>), 0, TRUE),
                       TestKw(<<"ALL">>, Required(<<"ALL">>), 80, FALSE),
                       TestKw(<<"ruff">>, Required(<<"mypy", "ruff">>), 80, FALSE),
                       TestKw(<<"pytest", "coverage">>, Required(<<>>), 80, FALSE),
                       TestKw(<<>>, NotGiven, 0, FALSE)}
                 ELSE {}
      [] OTHER -> IF rich \/ cls \in BuiltinClasses THEN {<<>>} ELSE {}

\* the argument lists tried on a command of class cls
ArgsOf(cls, uc, rich) ==
    LET h == Attr(cls, "handle", uc)
    IN  CASE Attr(cls, "call", uc) = "CommandWithParser" ->
                {Raw(<<>>)} \cup IF h = "AllPythonTests" THEN {Raw(<<"-x">>)} ELSE {}
          [] h \in {"Workflow", "Action"} ->
                {Sub("delete", <<>>)}
                \cup {Sub("create", kw) : kw \in CreateKws(cls, uc, rich)}
                \cup IF rich THEN {} ELSE {NoArgs, BadArgs}
          [] h = "ExecCommand" ->
                {BadArgs, Kw([files |-> <<"a.py">>, fix |-> TRUE]),
                 Kw([files |-> <<>>, fix |-> FALSE])}
          [] h = "NamedPytest" ->
                {Kw([names |-> <<>>]), Kw([names |-> <<"pytest", "unit_tests">>])}
          [] h = "Coverage" ->
                {Kw([fail_under |-> 80, no_report |-> FALSE])}
          [] OTHER -> {NoArgs, BadArgs}

QuietEnv == [stdin |-> <<>>, io_error |-> FALSE, tool |-> 0, user |-> "ok",
             failing |-> {}, cov_rate |-> 90]

\* what is typed at the prompts
Stdin == <<"", "n", "maybe", "Y", "", "no", "", "yes", "", "", "n", "", "", "", "", "">>

\* what the environment may do during an invocation of cls with args
EnvsOf(cls, args, uc) ==
    LET h == Attr(cls, "handle", uc)
    IN  CASE args.bad -> {QuietEnv}
          [] h \in {"Workflow", "Action"} /\ args.sub = "create" ->
                (IF \/ DOMAIN args.kw = {}
                    \/ /\ "tests" \in DOMAIN args.kw
                       /\ args.kw.tests = <<"ruff">>
                       /\ args.kw.required = Required(<<"ruff">>)
                 THEN {[QuietEnv EXCEPT !.io_error = TRUE]}
                 ELSE {})
                \cup CASE AttrOr(cls, "get_jobs", uc, None) = "GitHubPythonTest" ->
                            IF args.kw.tests = <<>>
                            THEN {QuietEnv, [QuietEnv EXCEPT !.stdin = Stdin]}
                            ELSE {QuietEnv}
                       [] AttrOr(cls, "get_jobs", uc, None) = "user" ->
                            {[QuietEnv EXCEPT !.user = u] : u \in {"ok", "CommandError"}}
                       [] OTHER -> {QuietEnv}
          [] h = "ExecCommand" ->
                {[QuietEnv EXCEPT !.tool = t] : t \in {0, 1, 2}}
          [] h \in {"MyPy", "ImportLinter"} ->
                {[QuietEnv EXCEPT !.tool = t] : t \in {0, 1}}
          [] h \in {"Pytest", "NamedPytest", "AllPythonTests"} ->
                {[QuietEnv EXCEPT !.failing = f] : f \in {{}, {"pytest"}}}
          [] h = "Coverage" ->
                {[QuietEnv EXCEPT !.failing = {"pytest"}, !.cov_rate = r] : r \in {50, 90}}
          [] h = "user" ->
                {[QuietEnv EXCEPT !.user = u] :
                    u \in {"ok", "CommandError", "NotImplementedError", "OSError"}}
          [] OTHER -> {QuietEnv}

\* the names looked up in the package
ProbeNames == {"ruff", "plugin", "no_such_command", ""}

\* the orders of iterdir that are tried
Listing(dir, firsts) ==
    [i \in DOMAIN firsts |-> CHOOSE e \in DirEntries(dir) : e.first = firsts[i]]

IterdirOrders ==
    {[d \in PackageDirs |-> CASE d = "scripts" -> Listing(d, o[1])
                              [] d = "scripts/ci" -> Listing(d, o[2])
                              [] d = "scripts/python" -> Listing(d, o[3])] :
        o \in {<<<<"_", "b", "c", "p">>, <<"_", "a", "p">>, <<"l", "t">>>>,
               <<<<"p", "c", "b", "_">>, <<"_", "a", "p">>, <<"t", "l">>>>,
               <<<<"b", "c", "_", "p">>, <<"p", "a", "_">>, <<"l", "t">>>>}}

\* ------------------------------------------------------------ state machine
Snapshot ==
    [loaded |-> loaded, reg |-> COMMAND_REGISTER, tests |-> TEST_REGISTRY,
     inst |-> instances, defined |-> defined, cwd |-> cwd, files |-> files,
     dirs |-> dirs, stdout |-> stdout, stderr |-> stderr, ran |-> ran,
     children |-> children, written |-> written]

Install(st) ==
    /\ loaded' = st.loaded
    /\ COMMAND_REGISTER' = st.reg
    /\ TEST_REGISTRY' = st.tests
    /\ instances' = st.inst
    /\ defined' = st.defined
    /\ cwd' = st.cwd
    /\ files' = st.files
    /\ dirs' = st.dirs
    /\ stdout' = st.stdout
    /\ stderr' = st.stderr
    /\ ran' = st.ran
    /\ children' = st.children
    /\ written' = st.written

(* frame describes the last operation: which one (op), on which name and   *)
(* instance, with which arguments and environment, and what was observed   *)
(* of it: the exception that left it (raised), for a call what handle      *)
(* raised (result, msg), whether handle was entered, how many times a      *)
(* CommandError was caught, the current directory before the call (saved)  *)
(* and during handle (seen_cwd), whether the builder's own artifact        *)
(* existed before the call (existed), whether the call changed the files   *)
(* (fs_changed) or the registry (reg_changed, also for a repeated          *)
(* discovery), and, when the call directly follows a successful create     *)
(* of the same instance (after_create), the files that create wrote.       *)
Frame(op, name, inst, args, env) ==
    [op |-> op, name |-> name, inst |-> inst, args |-> args, env |-> env,
     saved |-> None, seen_cwd |-> None, entered |-> FALSE, result |-> None,
     msg |-> "", raised |-> None, caught |-> 0, listing |-> {},
     existed |-> FALSE, fs_changed |-> FALSE, reg_changed |-> FALSE,
     after_create |-> FALSE, created |-> {}]

\* the artifact file of a builder class
OwnArtifact(cls, uc) ==
    CASE Attr(cls, "handle", uc) = "Workflow" -> workflow_path(cls, uc)
      [] Attr(cls, "handle", uc) = "Action" -> ActionFile(cls, uc)
      [] OTHER -> None

Init ==
    /\ loaded = {}
    /\ COMMAND_REGISTER = EmptyFn
    /\ TEST_REGISTRY = <<>>
    /\ instances = [c \in BuiltinClasses \cup Range(UserIds) |-> 0]
    /\ defined = EmptyFn
    /\ classes = PackageClasses
    /\ all_names = {}
    /\ cwd = START_DIR
    /\ files = EmptyFn
    /\ dirs = {PROJECT_ROOT_PARENT, PROJECT_ROOT}
    /\ frame = Frame("start", "", NoInstance, NoArgs, QuietEnv)
    /\ stdout = <<>>
    /\ stderr = <<>>
    /\ ran = <<>>
    /\ children = <<>>
    /\ written = {}

\* 'import scripts': the package's __init__ imports base, runs the discovery
\* and takes __all__ from the registry
ImportScripts ==
    /\ "scripts" \notin loaded
    /\ \E order \in IterdirOrders :
          \E st2 \in {import_all_modules(
                          import_module("scripts.base",
                                        [Snapshot EXCEPT !.loaded = @ \cup {"scripts"}],
                                        classes),
                          classes, order)} :
              /\ Install(st2)
              /\ all_names' = ModuleDir(st2.reg)
    /\ frame' = Frame("import", "", NoInstance, NoArgs, QuietEnv)
    /\ UNCHANGED classes

\* _import_all_modules() called again in the same process
Rediscover ==
    /\ "scripts" \in loaded
    /\ \E order \in IterdirOrders :
          \E st \in {import_all_modules(Snapshot, classes, order)} :
              /\ Install(st)
              /\ frame' = [Frame("rediscover", "", NoInstance, NoArgs, QuietEnv)
                                EXCEPT !.reg_changed = st.reg # COMMAND_REGISTER]
    /\ UNCHANGED <<classes, all_names>>

\* a class statement outside the package, from one of the templates ts
Define(ts) ==
    /\ "scripts" \in loaded
    /\ Cardinality(DOMAIN classes \ BuiltinClasses) < MaxUser
    /\ \E t \in ts :
          LET id == UserIds[Cardinality(DOMAIN classes \ BuiltinClasses) + 1]
              uc == DictSet(classes, id,
                            ClassObject(id, DictSet(classes, id, UserTemplates[t])))
          IN  /\ classes' = uc
              /\ \E st \in {ClassStatement(id, Snapshot, uc)} : Install(st)
              /\ frame' = Frame("define", Attr(id, "name", uc), Instance(id, 0),
                                NoArgs, QuietEnv)
    /\ UNCHANGED all_names

\* the templates that are plain commands
CommandTemplates ==
    {t \in DOMAIN UserTemplates :
        UserTemplates[t].bases \in {<<"Command">>, <<"CommandWithParser">>}}

DefineClass == Define(CommandTemplates)

\* scripts.<name>
Resolve ==
    /\ "scripts" \in loaded
    /\ \E name \in ProbeNames :
          LET r == ModuleGetattr(COMMAND_REGISTER, name)
          IN  frame' = [Frame("resolve", name, r.value, NoArgs, QuietEnv)
                            EXCEPT !.raised = r.raised]
    /\ UNCHANGED <<loaded, COMMAND_REGISTER, TEST_REGISTRY, instances, defined,
                   classes, all_names, cwd, files, dirs, stdout, stderr, ran,
                   children, written>>

\* dir(scripts)
List_ ==
    /\ "scripts" \in loaded
    /\ frame' = [Frame("dir", "", NoInstance, NoArgs, QuietEnv)
                      EXCEPT !.listing = ModuleDir(COMMAND_REGISTER)]
    /\ UNCHANGED <<loaded, COMMAND_REGISTER, TEST_REGISTRY, instances, defined,
                   classes, all_names, cwd, files, dirs, stdout, stderr, ran,
                   children, written>>

\* scripts.<name>(args) for a registered name among names; an invocation is
\* tried while it leaves no more than MaxInstances instances of
\* PythonBuildAction
InvokeAmong(names, rich) ==
    /\ "scripts" \in loaded
    /\ \E name \in DOMAIN COMMAND_REGISTER \cap names :
          LET inst == ModuleGetattr(COMMAND_REGISTER, name).value
          IN  \E args \in ArgsOf(inst.cls, classes, rich) :
              \E env \in EnvsOf(inst.cls, args, classes) :
                 \E c \in {Call(inst, args, env,
                                     [Snapshot EXCEPT !.stdout = <<>>, !.stderr = <<>>,
                                                      !.ran = <<>>, !.children = <<>>,
                                                      !.written = {}],
                                     classes)} :
                     LET follows == /\ frame.op = "call"
                                    /\ frame.inst = inst
                                    /\ frame.args.sub = "create"
                                    /\ frame.raised = None
                     IN  /\ c.st.inst["PythonBuildAction"] <= MaxInstances
                         /\ Install(c.st)
                         /\ frame' = [Frame("call", name, inst, args, env) EXCEPT
                                         !.saved = c.saved, !.seen_cwd = c.seen_cwd,
                                         !.entered = c.entered, !.result = c.result,
                                         !.msg = c.msg, !.raised = c.raised,
                                         !.caught = c.caught,
                                         !.existed = OwnArtifact(inst.cls, classes) \in DOMAIN files,
                                         !.fs_changed = c.st.files # files,
                                         !.reg_changed = c.st.reg # COMMAND_REGISTER,
                                         !.after_create = follows,
                                         !.created = IF follows THEN written ELSE {}]
    /\ UNCHANGED <<classes, all_names>>

AllNames == {Attr(c, "name", PackageClasses) : c \in BuiltinClasses}
            \cup {UserTemplates[t].attrs.name :
                    t \in {u \in DOMAIN UserTemplates : "name" \in DOMAIN UserTemplates[u].attrs}}

Invoke == InvokeAmong(AllNames, FALSE)

Next ==
    \/ ImportScripts
    \/ Rediscover
    \/ DefineClass
    \/ Resolve
    \/ List_
    \/ Invoke

Spec == Init /\ [][Next]_vars

\* ------------------------------------- the specification of the artifacts
(* The same process, followed through the document builders only: more of  *)
(* their options are tried, and the classes defined on top of the package  *)
(* are a pipeline builder and a test suite.                                *)
BuilderTemplates == DOMAIN UserTemplates \ CommandTemplates

BuilderNames ==
    {Attr(c, "name", PackageClasses) : c \in {"ApprovalBot", "PythonBuildAction", "GitHubPythonTest"}}
    \cup {UserTemplates[t].attrs.name :
            t \in {u \in BuilderTemplates : UserTemplates[u].bases = <<"Workflow">>}}

\* a class statement of a builder or test suite whose name is not yet taken
DefineBuilder ==
    Define({t \in BuilderTemplates : UserTemplates[t].attrs.name \notin DOMAIN defined})

InvokeBuilder == InvokeAmong(BuilderNames, TRUE)

NextArtifacts ==
    \/ ImportScripts
    \/ DefineBuilder
    \/ InvokeBuilder

SpecArtifacts == Init /\ [][NextArtifacts]_vars

\* ------------------------------------------------------------- properties
\* the value a mapping holds under key k
Get(m, k) == m.kv[CHOOSE i \in DOMAIN m.kv : m.kv[i][1] = k][2]

Classes == DOMAIN classes

UserDefined == DOMAIN classes \ BuiltinClasses

Called == frame.op = "call" /\ frame.entered

\* the document builders, by the handle they inherit
IsWorkflow(cls) == Attr(cls, "handle", classes) = "Workflow"

IsAction(cls) == Attr(cls, "handle", classes) = "Action"

\* C1: once the package is imported, and after any class definitions, every
\* key of the registry is a non-empty string whose entry is an instance of a
\* class that declares that very name; no instance of a class with an empty
\* name is in the registry; and dir(scripts) lists exactly the names that
\* scripts.<name> resolves without KeyError.
RegistryKeysAreDeclaredNames ==
    "scripts" \in loaded =>
        /\ \A k \in DOMAIN COMMAND_REGISTER :
              /\ k # ""
              /\ COMMAND_REGISTER[k].cls \in Classes
              /\ COMMAND_REGISTER[k].serial >= 1
              /\ Attr(COMMAND_REGISTER[k].cls, "name", classes) = k
        /\ \A c \in Classes :
              Attr(c, "name", classes) = "" =>
                  \A k \in DOMAIN COMMAND_REGISTER : COMMAND_REGISTER[k].cls # c
        /\ frame.op = "dir" =>
              frame.listing =
                  {n \in AllNames \cup ProbeNames :
                      ModuleGetattr(COMMAND_REGISTER, n).raised = None}

\* a listing taken after a class with an empty name was defined
ListedAfterAbstractDefinition ==
    /\ frame.op = "dir"
    /\ \E c \in UserDefined : Attr(c, "name", classes) = ""
    /\ frame.listing # {}

\* C2: when several classes were defined with the same non-empty name, the
\* registry entry of that name is an instance of the class defined last, and
\* no class defined earlier with that name has an instance in the registry
\* under any key; the class statement of the duplicate left no exception.
LaterDefinitionReplaces ==
    /\ \A name \in DOMAIN defined \ {""} :
          /\ name \in DOMAIN COMMAND_REGISTER
          /\ COMMAND_REGISTER[name].cls = Last(defined[name])
          /\ \A i \in 1..(Len(defined[name]) - 1) :
                \A k \in DOMAIN COMMAND_REGISTER :
                    COMMAND_REGISTER[k].cls # defined[name][i]
    /\ frame.op = "define" => frame.raised = None
    /\ frame.op = "resolve" /\ frame.name \in DOMAIN defined \ {""} =>
          frame.inst.cls = Last(defined[frame.name])

\* the name "ruff" resolved after a second class took it
ResolvedAfterDuplicate ==
    /\ "ruff" \in DOMAIN defined
    /\ Len(defined["ruff"]) >= 2
    /\ frame.op = "resolve"
    /\ frame.name = "ruff"
    /\ frame.inst.cls \in UserDefined

\* C3: after the import of the package, a repeated discovery, a resolution,
\* a listing and the invocation of any command leave the registry as it was:
\* no entry is added, removed or replaced.
RegistryFixedAfterDiscovery ==
    frame.op \in {"rediscover", "resolve", "dir", "call"} => ~frame.reg_changed

\* the test pipeline was created, which made a second PythonBuildAction
CreatedTestPipeline ==
    /\ Called
    /\ frame.inst.cls = "GitHubPythonTest"
    /\ frame.args.sub = "create"
    /\ frame.raised = None
    /\ instances["PythonBuildAction"] >= 2

\* C4: when handle of a Command or a CommandWithParser raises CommandError,
\* the invocation catches it once, prints its message to stderr and leaves
\* with exit status 1; when handle returns, the invocation returns.
DomainFailureExitsOne ==
    Called /\ Attr(frame.inst.cls, "call", classes) \in {"Command", "CommandWithParser"} =>
        /\ frame.result = "CommandError" =>
              /\ frame.raised = "SystemExit(1)"
              /\ frame.caught = 1
              /\ stderr # <<>>
              /\ Last(stderr) = frame.msg
        /\ frame.result = None => frame.raised = None /\ frame.caught = 0

\* a builder called without a sub-command: CommandError with a message
FailedWithMessage ==
    /\ Called
    /\ frame.result = "CommandError"
    /\ frame.msg # ""
    /\ frame.raised = "SystemExit(1)"

\* C5: an exception other than CommandError that leaves handle leaves the
\* invocation as it is, never as exit status 1 and never caught; resolving a
\* name that is not registered raises KeyError.
OtherFailuresPropagate ==
    /\ Called /\ frame.result \notin {None, "CommandError"} =>
          /\ frame.raised = frame.result
          /\ frame.raised # "SystemExit(1)"
          /\ frame.caught = 0
    /\ frame.op = "resolve" /\ frame.name \notin DOMAIN COMMAND_REGISTER =>
          frame.raised = "KeyError"

\* an I/O error while an artifact was written
WriteFailed ==
    /\ Called
    /\ frame.args.sub = "create"
    /\ frame.result = "OSError"
    /\ frame.raised = "OSError"

\* C6: for a command whose class declares a cwd, handle runs in that
\* directory and, however the invocation ends, the current directory is
\* afterwards the one that was current before it.
CwdRestoredOnEveryPath ==
    Called /\ Attr(frame.inst.cls, "cwd", classes) # None =>
        /\ frame.seen_cwd = Attr(frame.inst.cls, "cwd", classes)
        /\ cwd = frame.saved

DeleteOfMissingArtifact ==
    Called /\ frame.args.sub = "delete" /\ ~frame.existed =>
        /\ IsWorkflow(frame.inst.cls) =>
              frame.result = None /\ frame.raised = None /\ ~frame.fs_changed
        /\ IsAction(frame.inst.cls) =>
              /\ frame.result = "FileNotFoundError"
              /\ frame.raised = "FileNotFoundError"
              /\ ~frame.fs_changed

\* the build action deleted when it had no file
DeletedMissingAction ==
    /\ Called
    /\ IsAction(frame.inst.cls)
    /\ frame.args.sub = "delete"
    /\ ~frame.existed
    /\ frame.raised # None

\* the file a successful create of a pipeline builder has just written
JustCreated(cls) ==
    /\ Called
    /\ frame.inst.cls = cls
    /\ frame.args.sub = "create"
    /\ frame.raised = None

\* C9: the pipeline file written for a builder whose get_triggers returns an
\* empty mapping has no key 'on', and the one written for a builder whose
\* get_permissions returns an empty mapping has no key 'permissions'.
EmptyHooksOmitKeys ==
    \A cls \in Classes :
        IsWorkflow(cls) /\ JustCreated(cls) =>
            LET file == files[workflow_path(cls, classes)]
            IN  /\ ~Truthy(get_triggers(cls, classes)) => ~HasKey(file, "on")
                /\ ~Truthy(get_permissions(cls, classes)) => ~HasKey(file, "permissions")

\* every mapping of the written node tree has the keys of the mapping it was
\* made from, in the same order
RECURSIVE KeepsOrder(_, _)
KeepsOrder(data, node) ==
    CASE data.t = "str" -> TRUE
      [] data.t = "list" ->
            \A i \in DOMAIN data.items : KeepsOrder(data.items[i], node.items[i])
      [] data.t \in {"dict", "odict"} ->
            /\ Keys(node) = Keys(data)
            /\ \A i \in DOMAIN data.kv : KeepsOrder(data.kv[i][2], Get(node, data.kv[i][1]))

\* C10: in the file a successful create has written, every mapping (the
\* document, the job graph, the jobs, the steps, the triggers, the action
\* document and its 'runs') has its keys in the order of insertion.
InsertionOrderKept ==
    \A cls \in Classes :
        JustCreated(cls) =>
            /\ IsWorkflow(cls) =>
                  KeepsOrder(get_workflow_definition(cls, frame.args.kw, frame.env,
                                                     Names(TEST_REGISTRY, classes),
                                                     classes).doc,
                             files[workflow_path(cls, classes)])
            /\ IsAction(cls) =>
                  KeepsOrder(get_action_definition(cls, classes),
                             files[ActionFile(cls, classes)])

\* every str of the document is in the file as a literal block exactly when
\* it contains a line break, and is read back from the file as it was
RECURSIVE WrittenAsBlock(_, _)
WrittenAsBlock(data, node) ==
    CASE data.t = "str" ->
            /\ (emit_scalar(node).header \in {"|", "|-", "|+"}) <=> (Len(data.lines) > 1)
            /\ Len(data.lines) <= 1 => node.style = ""
            /\ load_scalar(emit_scalar(node)) = data
      [] data.t = "list" ->
            \A i \in DOMAIN data.items : WrittenAsBlock(data.items[i], node.items[i])
      [] data.t \in {"dict", "odict"} ->
            \A i \in DOMAIN data.kv : WrittenAsBlock(data.kv[i][2], Get(node, data.kv[i][1]))

\* the str values of a document that contain a line break
RECURSIVE MultilineValues(_)
MultilineValues(data) ==
    CASE data.t = "str" -> IF Len(data.lines) > 1 THEN {data} ELSE {}
      [] data.t = "list" -> UNION {MultilineValues(data.items[i]) : i \in DOMAIN data.items}
      [] data.t \in {"dict", "odict"} ->
            UNION {MultilineValues(data.kv[i][2]) : i \in DOMAIN data.kv}

\* the document a successful create of the builder cls has just written
Document(cls) ==
    IF IsWorkflow(cls)
    THEN get_workflow_definition(cls, frame.args.kw, frame.env,
                                 Names(TEST_REGISTRY, classes), classes).doc
    ELSE get_action_definition(cls, classes)

\* the file a successful create of the builder cls has just written
Written(cls) ==
    IF IsWorkflow(cls) THEN files[workflow_path(cls, classes)]
    ELSE files[ActionFile(cls, classes)]

\* C11: in the file a successful create has written, every str value that
\* contains a line break is a literal block and every str value without one
\* is in the default scalar style; reading the file back gives, for each of
\* these values, the identical str.
MultilineAsLiteralBlock ==
    \A cls \in Classes :
        JustCreated(cls) /\ (IsWorkflow(cls) \/ IsAction(cls)) =>
            WrittenAsBlock(Document(cls), Written(cls))

\* a gate job written with a RESULTS value and a script of several lines
WroteGateScript ==
    /\ JustCreated("GitHubPythonTest")
    /\ Cardinality(MultilineValues(Document("GitHubPythonTest"))) >= 2

\* the jobs of the graph in the test-pipeline file, in the order written
WrittenJobs == Keys(Get(Written("GitHubPythonTest"), "jobs"))

\* the names of the jobs the test-pipeline builder can add on request
OptionalJobs ==
    {"ruff", "lock", "mypy", "importlinter", "coverage"}
        \cup Range(Names(TEST_REGISTRY, classes))

\* C12: in the test-pipeline file written for a non-empty tests list, the
\* jobs other than the gate are exactly the jobs named in the list when the
\* list has no "ALL", whatever test suites are registered, and are every
\* linter, static test, registered test suite and the coverage job when the
\* list has "ALL".
ExplicitTestsSelectJobs ==
    JustCreated("GitHubPythonTest") /\ frame.args.kw.tests # <<>> =>
        LET tests == Range(frame.args.kw.tests)
            jobs == Range(WrittenJobs) \ {"python-tests-passed"}
        IN  /\ jobs \subseteq OptionalJobs
            /\ "ALL" \notin tests => jobs = tests \cap OptionalJobs
            /\ "ALL" \in tests => jobs = OptionalJobs

\* two jobs were asked for by name while a further test suite is registered
NamedJobsAmongMoreSuites ==
    /\ JustCreated("GitHubPythonTest")
    /\ frame.args.kw.tests = <<"pytest", "coverage">>
    /\ "unit_tests" \in OptionalJobs
    /\ WrittenJobs = <<"pytest", "coverage">>

\* the gate job in the test-pipeline file
WrittenGate == Get(Get(Written("GitHubPythonTest"), "jobs"), "python-tests-passed")

\* the 'needs' of the gate job in the file
GateNeeds ==
    LET needs == Get(WrittenGate, "needs").items
    IN  [i \in DOMAIN needs |-> needs[i].lines[1]]

\* the job names that the RESULTS value of the gate job in the file refers to
GateResults ==
    LET results == Get(Get(WrittenGate, "env"), "RESULTS").lines
    IN  {n \in OptionalJobs \cup Range(GateNeeds) :
            \E i \in DOMAIN results : results[i] = ResultLine(n)}

\* C13: in the test-pipeline file written for an explicit required list, the
\* gate job is in the graph iff at least one job is marked required, and its
\* 'needs' and the jobs its RESULTS value refers to are both exactly the
\* jobs marked required: every name of the list (every job of the graph when
\* the list has "ALL") and no other name.
GateNeedsEveryRequiredName ==
    JustCreated("GitHubPythonTest") /\ ~frame.args.kw.required.none =>
        LET required == Range(frame.args.kw.required.items)
            jobs == Range(WrittenJobs) \ {"python-tests-passed"}
            marked == IF "ALL" \in required THEN jobs ELSE required
        IN  /\ "python-tests-passed" \in Range(WrittenJobs) <=> marked # {}
            /\ "python-tests-passed" \in Range(WrittenJobs) =>
                  /\ Range(GateNeeds) = marked
                  /\ GateResults = marked

\* C13 (amended): in the test-pipeline file written for an explicit required
\* list, the gate job is in the graph iff a job of the graph is marked
\* required, and its 'needs' and the jobs its RESULTS value refers to are
\* both exactly the jobs of the graph whose name is in the list (every job
\* of the graph when the list has "ALL"); a name of the list that is no job
\* of the graph is in neither.
GateNeedsRequiredJobsOfGraph ==
    JustCreated("GitHubPythonTest") /\ ~frame.args.kw.required.none =>
        LET required == Range(frame.args.kw.required.items)
            jobs == Range(WrittenJobs) \ {"python-tests-passed"}
            marked == IF "ALL" \in required THEN jobs ELSE required \cap jobs
        IN  /\ "python-tests-passed" \in Range(WrittenJobs) <=> marked # {}
            /\ "python-tests-passed" \in Range(WrittenJobs) =>
                  /\ Range(GateNeeds) = marked
                  /\ GateResults = marked

\* 'mypy' and 'ruff' were required when only 'ruff' was asked for
RequiredNameOutsideGraph ==
    /\ JustCreated("GitHubPythonTest")
    /\ frame.args.kw.required = Required(<<"mypy", "ruff">>)
    /\ WrittenJobs = <<"ruff", "python-tests-passed">>
    /\ GateNeeds = <<"ruff">>

\* the answers read from the prompts while the jobs of the file were chosen
Asked ==
    Len(frame.env.stdin)
        - Len(GitHubPythonTest_get_jobs(frame.args.kw, frame.env.stdin,
                                        Names(TEST_REGISTRY, classes)).stdin)

\* the test-pipeline file that the same call writes when no required list is given
WrittenIfNotGiven ==
    LET Written_(d) == IF d.raised = None THEN dump(d.doc) ELSE EmptyFile
    IN  Written_(get_workflow_definition("GitHubPythonTest",
                                         [frame.args.kw EXCEPT !.required = NotGiven],
                                         frame.env, Names(TEST_REGISTRY, classes), classes))

\* C14: for the tests and for the required selection alike, an empty list is
\* as an absent one: every job of the category is decided by its own prompt,
\* whose empty answer means yes; with a non-empty list no prompt is issued.
EmptyListIsAbsentList ==
    JustCreated("GitHubPythonTest") =>
        LET kw == frame.args.kw
            jobs == Range(WrittenJobs) \ {"python-tests-passed"}
        IN  /\ kw.required = Required(<<>>) =>
                  Written("GitHubPythonTest") = WrittenIfNotGiven
            /\ kw.tests # <<>> /\ ~kw.required.none /\ kw.required.items # <<>> =>
                  Asked = 0
            /\ kw.tests = <<>> => Asked >= Cardinality(OptionalJobs) + Cardinality(jobs)

\* the results a job of a pipeline run can have
JobResults == {"success", "failure", "cancelled", "skipped"}

\* C15: when the gate job of the written test pipeline runs, it succeeds iff
\* the result of every job it needs is success or skipped, and fails for any
\* other result: the RESULTS value and the step script of the file make
\* exactly this test.
GateSucceedsIffAllPassedOrSkipped ==
    JustCreated("GitHubPythonTest") /\ "python-tests-passed" \in Range(WrittenJobs) =>
        \A result \in [Range(GateNeeds) -> JobResults] :
            LET RESULTS == EvalResults(Get(Get(WrittenGate, "env"), "RESULTS").lines, result)
                script == Get(Get(WrittenGate, "steps").items[1], "run").lines
            IN  /\ script = GateScript
                /\ RunGateScript(RESULTS) = 0
                       <=> \A need \in Range(GateNeeds) : result[need] \in {"success", "skipped"}

\* C16: in the all-tests runner, the named test-suite runner and the coverage
\* runner, every registered (for the named runner: every selected) suite is
\* run exactly once in the order of the registry whether or not a suite
\* raises CommandError, each run is recorded as one passed/failed summary
\* line, and the runner raises CommandError iff at least one suite failed.
EverySuiteRunAndRecorded ==
    Called /\ Attr(frame.inst.cls, "handle", classes) \in {"AllPythonTests", "NamedPytest", "Coverage"}
           /\ frame.result \in {None, "CommandError"} =>
        LET names == Names(TEST_REGISTRY, classes)
            selected == IF Attr(frame.inst.cls, "handle", classes) = "NamedPytest"
                        THEN SelectSeq(names, LAMBDA n : n \in Range(frame.args.kw.names))
                        ELSE names
        IN  /\ ran = selected
            /\ stdout = [i \in DOMAIN selected |->
                            SummaryLine(selected[i],
                                        IF selected[i] \in frame.env.failing
                                        THEN "failed" ELSE "passed")]
            /\ frame.result = "CommandError"
                   <=> \E i \in DOMAIN selected : selected[i] \in frame.env.failing

\* C17: handle of a command whose class declares a cwd runs with that
\* directory current; when handle has returned, the current directory is
\* again the one that was current before the invocation; the invocation of a
\* command that declares no cwd leaves the current directory as it was.
CwdRestoredAfterReturn ==
    frame.op = "call" =>
        LET override == Attr(frame.inst.cls, "cwd", classes)
        IN  /\ frame.entered /\ override # None =>
                  /\ frame.seen_cwd = override
                  /\ frame.result = None => cwd = frame.saved
            /\ override = None =>
                  /\ cwd = frame.saved
                  /\ frame.entered => frame.seen_cwd = frame.saved

\* a command with a cwd returned, called from another directory
ReturnedFromOverride ==
    /\ Called
    /\ Attr(frame.inst.cls, "cwd", classes) \notin {None, frame.saved}
    /\ frame.seen_cwd # frame.saved
    /\ frame.result = None
    /\ cwd = frame.saved

\* C18: an invocation of an external-process command whose handle runs
\* launches exactly one child, with the argument list, environment and
\* output sinks its hooks return, and ends only when the child has exited;
\* handle raises CommandError iff the exit status of the child is not 0, so
\* the invocation leaves with exit status 1 for such a status and returns
\* for status 0.
ChildExitStatusDecides ==
    frame.op = "call" /\ Attr(frame.inst.cls, "handle", classes) = "ExecCommand" =>
        /\ ~frame.entered => children = <<>>
        /\ frame.entered =>
              /\ Len(children) = 1
              /\ children[1].argv = <<Attr(frame.inst.cls, "command_name", classes)>>
                                       \o get_args(frame.inst.cls, frame.args.kw, classes)
              /\ children[1].env = EmptyFn
              /\ children[1].stdout = "sys.stdout" /\ children[1].stderr = "sys.stderr"
              /\ children[1].exited
              /\ children[1].status = frame.env.tool
              /\ frame.result = "CommandError" <=> children[1].status # 0
              /\ children[1].status # 0 => frame.raised = "SystemExit(1)"
              /\ children[1].status = 0 => frame.raised = None

\* ruff left with exit status 2 after 'check --fix a.py'
ChildFailedWithStatusTwo ==
    /\ Called
    /\ Len(children) = 1
    /\ children[1].argv = <<"ruff-bin", "check", "--fix", "a.py">>
    /\ children[1].status = 2
    /\ frame.raised = "SystemExit(1)"

\* C19: a create that fails leaves the files on disk as they were before the
\* call: the builder's artifact has the content it had, and no empty or
\* partial file is left where there was none.
FailedCreateLeavesFiles ==
    Called /\ frame.args.sub = "create" /\ frame.result # None => ~frame.fs_changed

\* C20: in the job graph of every pipeline file that the test-pipeline
\* builder or the approval-bot builder has written, every name in the
\* 'needs' of a job is a key of that graph and no job needs itself; the gate
\* job is the last job of the graph, and a graph with the dependabot job has
\* the clear-automerge job it needs.
NeedsAreJobsOfTheGraph ==
    \A cls \in {"ApprovalBot", "GitHubPythonTest"} :
        JustCreated(cls) =>
            LET jobs == Get(Written(cls), "jobs")
                names == Keys(jobs)
                Needs(job) == IF HasKey(job, "needs")
                              THEN {need.lines[1] : need \in Range(Get(job, "needs").items)}
                              ELSE {}
            IN  /\ \A i \in DOMAIN jobs.kv :
                      /\ Needs(jobs.kv[i][2]) \subseteq Range(names)
                      /\ names[i] \notin Needs(jobs.kv[i][2])
                /\ "python-tests-passed" \in Range(names) =>
                      Last(names) = "python-tests-passed"
                /\ cls = "ApprovalBot" /\ frame.args.kw.dependabot =>
                      /\ "auto-approve-dependabot" \in Range(names)
                      /\ "clear-automerge" \in Range(names)

\* the approval bot written for --dependabot alone
DependabotWithoutClearAutomergeFlag ==
    /\ JustCreated("ApprovalBot")
    /\ frame.args.kw.dependabot
    /\ ~frame.args.kw.clear_automerge
    /\ Keys(Get(Written("ApprovalBot"), "jobs")) = <<"clear-automerge", "auto-approve-dependabot">>

====
